---- MODULE Spec2Model ----
(***************************************************************************)
(* A model of the GCE metadata credential code:                            *)
(*   src/staging/src/k8s.io/api/networking/v1alpha1/types.go  (package     *)
(*       gcpcredentials: readURL, runWithBackoff, HasStorageScope and the  *)
(*       three Provide* functions)                                         *)
(*   src/pkg/credentialprovider/gcp/metadata.go (the registered providers) *)
(*                                                                         *)
(* Durations are counted in milliseconds (time.Duration is an int64 count  *)
(* of nanoseconds; no value here comes near its range).                    *)
(***************************************************************************)
EXTENDS Integers, Sequences, FiniteSets, TLC

\* ------------------------------------------------------------------------
\* Bounds of the model
\* ------------------------------------------------------------------------
\* The largest number of failures the retried operation has before it succeeds.
MaxFail == 13
\* The most lines of a service-account listing, scopes of a scopes document,
\* and registry entries of a credential document the metadata server serves.
MaxAccounts == 2
MaxScopes == 2
MaxEntries == 2
\* The most failed reads in a row the metadata server makes
\* HasStorageScope sit through.
MaxRetry == 1

\* Goroutines that call Provide on one cache-wrapped provider.
MaxCallers == 2

\* Provide calls made on the wrapped provider in one run.
MaxProvides == 3

\* Times the clock is moved on in one run, half a Lifetime each time.
MaxTicks == 3

\* SetComponent calls made on one migration config.
MaxSets == 3

\* Updates of one DNSPolicy.
MaxUpdates == 3

\* ------------------------------------------------------------------------
\* State
\* ------------------------------------------------------------------------
VARIABLES
    \* runWithBackoff, run on an operation that fails opFails times
    pc,         \* "call" (about to invoke f), "sleep", "returned"
    opFails,    \* failures of f before its first success; Forever: never succeeds
    calls,      \* invocations of f so far
    backoff,    \* the local variable backoff, in ms
    slept,      \* the durations passed to time.Sleep, in order
    ret,        \* the value runWithBackoff returned, NoValue before it returns
    \* the metadata functions, each run against a far end that answers freely
    op,         \* the function that runs or ran; "idle" before any
    reads,      \* the readURL calls of the last step, in order
    hs,         \* where HasStorageScope stands: "accounts", "scopes", a sleep, "done"
    tries,      \* failed invocations in the runWithBackoff under way
    delay,      \* the variable backoff of the runWithBackoff under way, in ms
    listing,    \* what the listing HasStorageScope read was made from
    enabled,    \* the return of HasStorageScope
    cfg,        \* the return of a Provide* function of package gcpcredentials
    provided,   \* the return of the provider's Provide method
    \* a provider under the caching wrapper, called from several goroutines
    now,        \* the clock, in seconds
    ticks,      \* times the clock was moved on
    cached,     \* the cache entry: Empty, Refreshing or Valid(until) with a value
    caller,     \* where each goroutine stands: "idle", "fetching", "waiting", "served"
    ticket,     \* the underlying fetch a goroutine runs or waits for, 0: none
    got,        \* what Provide returned to the goroutine, NoResult before
    fetches,    \* underlying fetches issued so far
    results,    \* what the underlying fetches returned, in the order issued
    provides,   \* Provide calls made so far
    \* OnGCEVM and the Enabled methods of the providers
    who,        \* the function or provider called; "none" before any
    epc,        \* where the call stands: "idle", "scope" (in HasStorageScope), "returned"
    goos,       \* runtime.GOOS of the OnGCEVM call under test
    probe,      \* what the product file or the wmic command gave that call
    onGCE,      \* the return of OnGCEVM
    result,     \* the return of Enabled
    \* a dummyMigrationConfig
    component,  \* the field component
    sets,       \* SetComponent calls made so far
    setArg,     \* the argument of the last SetComponent call, "none" before any
    setPrev,    \* the field component as that call found it
    setErr,     \* what that call returned: "nil" or "error"; "none" before any
    asked,      \* the field component when the four controllers were last asked about
    answers,    \* what the four methods returned then
    \* one DNSPolicy under dnsPolicyStrategy
    stored,     \* the object in storage, NoObject before the create
    submitted,  \* the object the last create or update was called with
    before,     \* the object in storage when the last update was called
    last,       \* the last call: "none", "create" or "update"
    updates     \* updates made so far

backoffVars == <<pc, opFails, calls, backoff, slept, ret>>
metadataVars == <<op, reads, hs, tries, delay, listing, enabled, cfg, provided>>

cacheVars == <<now, ticks, cached, caller, ticket, got, fetches, results, provides>>

platformVars == <<who, epc, goos, probe, onGCE, result>>

migrationVars == <<component, sets, setArg, setPrev, setErr, asked, answers>>

dnsVars == <<stored, submitted, before, last, updates>>

vars == <<backoffVars, metadataVars, cacheVars, platformVars, migrationVars, dnsVars>>

\* ------------------------------------------------------------------------
\* runWithBackoff (types.go 382-398)
\* ------------------------------------------------------------------------
Forever == 0 - 1
NoValue == 0 - 1

\* var backoff = 100 * time.Millisecond
initialBackoff == 100
\* const maxBackoff = time.Minute
maxBackoff == 60000

\* The operation f handed to runWithBackoff: its n-th invocation fails while
\* n <= opFails; a successful invocation yields a value that names the attempt.
F(n) ==
    IF opFails = Forever \/ n <= opFails
    THEN [value |-> NoValue, err |-> "failed"]
    ELSE [value |-> n, err |-> "nil"]

\* backoff = backoff * 2; if backoff > maxBackoff { backoff = maxBackoff }
NextBackoff_NoCap(b) == b * 2
NextBackoff(b) == IF b * 2 > maxBackoff THEN maxBackoff ELSE b * 2

\* The Forever operation is cut off after this many invocations.
MaxCalls == MaxFail + 2

\* value, err := f(); if err == nil { return value }
BackoffCall_GiveUp ==
    /\ pc = "call"
    /\ calls < MaxCalls
    /\ calls' = calls + 1
    /\ LET r == F(calls + 1) IN
         IF r.err = "nil" \/ calls + 1 >= 3
         THEN pc' = "returned" /\ ret' = r.value
         ELSE pc' = "sleep" /\ ret' = ret
    /\ UNCHANGED <<opFails, backoff, slept, metadataVars, cacheVars, platformVars, migrationVars, dnsVars>>
BackoffCall ==
    /\ pc = "call"
    /\ calls < MaxCalls
    /\ calls' = calls + 1
    /\ LET r == F(calls + 1) IN
         IF r.err = "nil"
         THEN pc' = "returned" /\ ret' = r.value
         ELSE pc' = "sleep" /\ ret' = ret
    /\ UNCHANGED <<opFails, backoff, slept, metadataVars, cacheVars, platformVars, migrationVars, dnsVars>>

\* time.Sleep(backoff), then the doubling and the cap
BackoffSleep ==
    /\ pc = "sleep"
    /\ slept' = Append(slept, backoff)
    /\ backoff' = NextBackoff(backoff)
    /\ pc' = "call"
    /\ UNCHANGED <<opFails, calls, ret, metadataVars, cacheVars, platformVars, migrationVars, dnsVars>>

\* No function of the metadata code has run.
MetadataIdle ==
    /\ op = "idle"
    /\ reads = <<>>
    /\ hs = "accounts"
    /\ tries = 0
    /\ delay = initialBackoff
    /\ listing = [kind |-> "none", list |-> <<>>]
    /\ enabled = FALSE
    /\ cfg = [isNil |-> TRUE, entries |-> {}]
    /\ provided = [isNil |-> TRUE, entries |-> {}]

\* The wrapped provider has not been called: the entry is Empty.
Callers == 1..MaxCallers
NoResult == "none"
CacheEntry(state, until, value) == [state |-> state, until |-> until, value |-> value]
CacheIdle ==
    /\ now = 0
    /\ ticks = 0
    /\ cached = CacheEntry("Empty", 0, NoResult)
    /\ caller = [c \in Callers |-> "idle"]
    /\ ticket = [c \in Callers |-> 0]
    /\ got = [c \in Callers |-> NoResult]
    /\ fetches = 0
    /\ results = <<>>
    /\ provides = 0

\* Neither OnGCEVM nor an Enabled method has been called.
NoProbe == [fault |-> FALSE, data |-> <<>>, doc |-> [kind |-> "none"]]
PlatformIdle ==
    /\ who = "none"
    /\ epc = "idle"
    /\ goos = "none"
    /\ probe = NoProbe
    /\ onGCE = FALSE
    /\ result = FALSE

\* A dummyMigrationConfig as Go makes it: the component is the empty string.
NoAnswers == [cloudNode |-> <<>>, service |-> <<>>, route |-> <<>>, nodeIPAM |-> <<>>]
MigrationIdle ==
    /\ component = ""
    /\ sets = 0
    /\ setArg = "none"
    /\ setPrev = ""
    /\ setErr = "none"
    /\ asked = ""
    /\ answers = NoAnswers

\* No DNSPolicy has been created.
NoObject == [kind |-> "none"]
DNSPolicyIdle ==
    /\ stored = NoObject
    /\ submitted = NoObject
    /\ before = NoObject
    /\ last = "none"
    /\ updates = 0

InitBackoff ==
    /\ pc = "call"
    /\ opFails \in (0..MaxFail) \cup {Forever}
    /\ calls = 0
    /\ backoff = initialBackoff
    /\ slept = <<>>
    /\ ret = NoValue
    /\ MetadataIdle
    /\ CacheIdle
    /\ PlatformIdle
    /\ MigrationIdle
    /\ DNSPolicyIdle

NextBackoffSpec ==
    \/ BackoffCall
    \/ BackoffSleep

SpecBackoff == InitBackoff /\ [][NextBackoffSpec]_vars

\* The goroutine that runs the loop keeps running: each step that is enabled
\* is eventually taken.
FairBackoff == SpecBackoff /\ WF_vars(BackoffCall) /\ WF_vars(BackoffSleep)

\* ------------------------------------------------------------------------
\* C1, C2
\* ------------------------------------------------------------------------
RECURSIVE SumSeq(_)
SumSeq(s) == IF s = <<>> THEN 0 ELSE s[1] + SumSeq(Tail(s))

Min(a, b) == IF a < b THEN a ELSE b

\* C1: runWithBackoff returns only after a successful invocation of f: for an
\* operation that fails k times and then succeeds it has invoked f exactly k+1
\* times when it returns and returns the value of that invocation; for an
\* operation that never succeeds it never returns; and an operation that
\* succeeds after finitely many failures makes it return eventually.
C1_ReturnsOnlyOnSuccess ==
    /\ [](pc = "returned" =>
            /\ opFails # Forever
            /\ calls = opFails + 1
            /\ ret = opFails + 1)
    /\ [](opFails = Forever => pc # "returned")
    /\ [](pc # "returned" => ret = NoValue)
    /\ \A k \in 0..MaxFail : (opFails = k) ~> (pc = "returned")

C1_Witness == pc = "returned" /\ opFails = MaxFail /\ calls = MaxFail + 1

\* C2: the i-th sleep (i from 0) lasts min(100ms * 2^i, 60s); there is one
\* sleep per failed invocation and none after the successful one, so the
\* total slept on return is the sum of min(100ms * 2^i, 60s) for i in 0..k-1.
C2_SleepSchedule ==
    /\ \A i \in 1..Len(slept) :
          slept[i] = Min(100 * 2^(i - 1), 60000)
    /\ pc = "call" => Len(slept) = calls
    /\ pc = "sleep" => Len(slept) = calls - 1
    /\ pc = "returned" =>
          /\ Len(slept) = opFails
          /\ Len(slept) = calls - 1
          /\ SumSeq(slept) =
               SumSeq([i \in 1..opFails |-> Min(100 * 2^(i - 1), 60000)])

\* Twelve failures: the last two sleeps are held at the 60s cap.
C2_Witness ==
    /\ pc = "returned"
    /\ opFails = 12
    /\ slept[10] = 51200
    /\ slept[11] = 60000
    /\ slept[12] = 60000

\* ------------------------------------------------------------------------
\* Bytes and strings
\* ------------------------------------------------------------------------
\* A []byte or string is a sequence of symbols. A word the code never looks
\* inside ("default/", "gcr.io") is one symbol; the symbols the code and
\* encoding/json do look at (quotes, brackets, separators, white space, the
\* "http" prefix) are symbols of their own. A length counts symbols.

Quote == "\""
Space == {" ", "\n", "\r", "\t"}

Range(s) == {s[i] : i \in 1..Len(s)}

\* strings.HasPrefix
HasPrefix(s, prefix) ==
    /\ Len(s) >= Len(prefix)
    /\ SubSeq(s, 1, Len(prefix)) = prefix

\* The smallest and the largest member of a non-empty set of numbers.
Smallest(S) == CHOOSE x \in S : \A y \in S : x <= y
Largest(S) == CHOOSE x \in S : \A y \in S : x >= y

\* The places of s, in order, that satisfy Test.
Places(s, Test(_)) == SelectSeq([i \in 1..Len(s) |-> i], Test)

\* strings.TrimSpace: s from its first to its last symbol that is no white
\* space.
TrimSpace(s) ==
    LET solid == {i \in 1..Len(s) : s[i] \notin Space} IN
    IF solid = {} THEN <<>> ELSE SubSeq(s, Smallest(solid), Largest(solid))

\* strings.Split(s, sep) for a one-symbol separator: the pieces between the
\* separators, in order (one piece more than there are separators).
Split(s, sep) ==
    LET IsSep(i) == s[i] = sep
        at == Places(s, IsSep)
    IN  [k \in 1..(Len(at) + 1) |->
            SubSeq(s, IF k = 1 THEN 1 ELSE at[k - 1] + 1,
                      IF k = Len(at) + 1 THEN Len(s) ELSE at[k] - 1)]

\* strings.Join for a one-symbol separator
RECURSIVE Join(_, _)
Join(pieces, sep) ==
    IF pieces = <<>> THEN <<>>
    ELSE IF Len(pieces) = 1 THEN pieces[1]
    ELSE pieces[1] \o <<sep>> \o Join(Tail(pieces), sep)

RECURSIVE Concat(_)
Concat(pieces) ==
    IF pieces = <<>> THEN <<>> ELSE pieces[1] \o Concat(Tail(pieces))

\* All sequences over S of length at most n.
SeqsUpTo(S, n) == UNION {[1..k -> S] : k \in 0..n}

\* ------------------------------------------------------------------------
\* encoding/json, as far as json.Unmarshal is used (types.go 240, 312, 376)
\* ------------------------------------------------------------------------
Punct == {"{", "}", "[", "]", ",", ":"}
Literals == {"null", "7"}

Tok(k, v) == [k |-> k, v |-> v]
P(c) == Tok("p", <<c>>)

\* The scanner: white space between tokens is skipped, a string runs from a
\* quote to the next quote, anything else outside a string is a syntax error
\* (a "bad" token). A symbol with an odd number of quotes before it lies in
\* a string or closes one; every other symbol that is no white space begins
\* a token.
Lex(b) ==
    LET quotes == {j \in 1..Len(b) : b[j] = Quote}
        Begins(i) ==
            /\ b[i] \notin Space
            /\ Cardinality({j \in quotes : j < i}) % 2 = 0
        TokenAt(i) ==
            IF b[i] \in Punct THEN P(b[i])
            ELSE IF b[i] \in Literals THEN Tok("lit", <<b[i]>>)
            ELSE IF b[i] = Quote /\ {j \in quotes : j > i} # {}
                 THEN Tok("s", SubSeq(b, i + 1, Smallest({j \in quotes : j > i}) - 1))
            ELSE Tok("bad", <<b[i]>>)
        at == Places(b, Begins)
    IN  [k \in 1..Len(at) |-> TokenAt(at[k])]

\* A JSON value: t is "str", "null", "num", "arr" or "obj"; s the text of a
\* string; kids the elements of an array or the member values of an object;
\* keys the member names of an object.
JVal(t, s, keys, kids) == [t |-> t, s |-> s, keys |-> keys, kids |-> kids]
JNull == JVal("null", <<>>, <<>>, <<>>)
ParseFail == [ok |-> FALSE, val |-> JNull, rest |-> <<>>]
Parsed(v, rest) == [ok |-> TRUE, val |-> v, rest |-> rest]

RECURSIVE ParseValue(_)
RECURSIVE ParseElems(_, _)
RECURSIVE ParseMembers(_, _, _)

\* after a value of an array: "," and the next value, or "]"
ParseElems(toks, acc) ==
    LET r == ParseValue(toks) IN
    IF ~r.ok \/ r.rest = <<>> THEN ParseFail
    ELSE IF r.rest[1] = P(",") THEN ParseElems(Tail(r.rest), Append(acc, r.val))
    ELSE IF r.rest[1] = P("]")
         THEN Parsed(JVal("arr", <<>>, <<>>, Append(acc, r.val)), Tail(r.rest))
    ELSE ParseFail

\* a member of an object: a string, ":", a value, then "," or "}"
ParseMembers(toks, keys, kids) ==
    IF Len(toks) < 2 \/ toks[1].k # "s" \/ toks[2] # P(":") THEN ParseFail
    ELSE LET r == ParseValue(SubSeq(toks, 3, Len(toks))) IN
         IF ~r.ok \/ r.rest = <<>> THEN ParseFail
         ELSE IF r.rest[1] = P(",")
              THEN ParseMembers(Tail(r.rest), Append(keys, toks[1].v),
                                Append(kids, r.val))
         ELSE IF r.rest[1] = P("}")
              THEN Parsed(JVal("obj", <<>>, Append(keys, toks[1].v),
                               Append(kids, r.val)), Tail(r.rest))
         ELSE ParseFail

ParseValue(toks) ==
    IF toks = <<>> THEN ParseFail
    ELSE IF toks[1].k = "s"
         THEN Parsed(JVal("str", toks[1].v, <<>>, <<>>), Tail(toks))
    ELSE IF toks[1] = Tok("lit", <<"null">>) THEN Parsed(JNull, Tail(toks))
    ELSE IF toks[1].k = "lit"
         THEN Parsed(JVal("num", toks[1].v, <<>>, <<>>), Tail(toks))
    ELSE IF toks[1] = P("[")
         THEN IF Len(toks) >= 2 /\ toks[2] = P("]")
              THEN Parsed(JVal("arr", <<>>, <<>>, <<>>), SubSeq(toks, 3, Len(toks)))
              ELSE ParseElems(Tail(toks), <<>>)
    ELSE IF toks[1] = P("{")
         THEN IF Len(toks) >= 2 /\ toks[2] = P("}")
              THEN Parsed(JVal("obj", <<>>, <<>>, <<>>), SubSeq(toks, 3, Len(toks)))
              ELSE ParseMembers(Tail(toks), <<>>, <<>>)
    ELSE ParseFail

\* The syntax check json.Unmarshal makes before it decodes anything: the whole
\* input is one JSON value.
ParseJSON(b) ==
    LET Whole(r) == IF r.ok /\ r.rest = <<>> THEN r ELSE ParseFail
    IN  Whole(ParseValue(Lex(b)))

\* Struct fields are matched to member names without regard to case.
Fold(name) ==
    IF name = <<"ACCESS_TOKEN">> THEN <<"access_token">>
    ELSE IF name \in {<<"username">>, <<"USERNAME">>} THEN <<"Username">>
    ELSE IF name \in {<<"password">>, <<"PASSWORD">>} THEN <<"Password">>
    ELSE IF name \in {<<"email">>, <<"EMAIL">>} THEN <<"Email">>
    ELSE name

\* Decoding value v into a Go string that held old: a JSON string sets it,
\* null leaves it, anything else is an UnmarshalTypeError.
IntoString(v, old) ==
    IF v.t = "str" THEN [err |-> FALSE, s |-> v.s]
    ELSE IF v.t = "null" THEN [err |-> FALSE, s |-> old]
    ELSE [err |-> TRUE, s |-> old]

\* var scopes []string; json.Unmarshal(value, &scopes)   (types.go 239-240)
RECURSIVE IntoStrings(_)
IntoStrings(kids) ==
    IF kids = <<>> THEN [err |-> FALSE, list |-> <<>>]
    ELSE LET h == IntoString(kids[1], <<>>)
             t == IntoStrings(Tail(kids))
         IN  [err |-> h.err \/ t.err, list |-> <<h.s>> \o t.list]

UnmarshalScopes(b) ==
    LET r == ParseJSON(b) IN
    IF ~r.ok THEN [err |-> TRUE, scopes |-> <<>>]
    ELSE IF r.val.t = "null" THEN [err |-> FALSE, scopes |-> <<>>]
    ELSE IF r.val.t = "arr"
         THEN LET d == IntoStrings(r.val.kids) IN
              [err |-> d.err, scopes |-> d.list]
    ELSE [err |-> TRUE, scopes |-> <<>>]

\* type tokenBlob struct { AccessToken string `json:"access_token"` }
\* json.Unmarshal([]byte(tokenJSONBlob), &parsedBlob)   (types.go 291-312)
RECURSIVE IntoTokenBlob(_, _, _)
IntoTokenBlob(keys, kids, blob) ==
    IF keys = <<>> THEN blob
    ELSE IF Fold(keys[1]) = <<"access_token">>
         THEN LET d == IntoString(kids[1], blob.AccessToken) IN
              IntoTokenBlob(Tail(keys), Tail(kids),
                            [err |-> blob.err \/ d.err, AccessToken |-> d.s])
    ELSE IntoTokenBlob(Tail(keys), Tail(kids), blob)

UnmarshalTokenBlob(b) ==
    LET r == ParseJSON(b)
        zero == [err |-> FALSE, AccessToken |-> <<>>]
    IN  IF ~r.ok THEN [err |-> TRUE, AccessToken |-> <<>>]
        ELSE IF r.val.t = "null" THEN zero
        ELSE IF r.val.t = "obj" THEN IntoTokenBlob(r.val.keys, r.val.kids, zero)
        ELSE [err |-> TRUE, AccessToken |-> <<>>]

\* type DockerConfigEntry struct { Username, Password, Email string }
\*                                                      (types.go 173-177)
DockerConfigEntry(u, p, e) == [Username |-> u, Password |-> p, Email |-> e]
ZeroEntry == DockerConfigEntry(<<>>, <<>>, <<>>)

RECURSIVE IntoEntryFields(_, _, _)
IntoEntryFields(keys, kids, acc) ==
    IF keys = <<>> THEN acc
    ELSE LET f == Fold(keys[1])
             e == acc.entry
         IN  IF f = <<"Username">>
             THEN LET d == IntoString(kids[1], e.Username) IN
                  IntoEntryFields(Tail(keys), Tail(kids),
                      [err |-> acc.err \/ d.err,
                       entry |-> [e EXCEPT !.Username = d.s]])
             ELSE IF f = <<"Password">>
             THEN LET d == IntoString(kids[1], e.Password) IN
                  IntoEntryFields(Tail(keys), Tail(kids),
                      [err |-> acc.err \/ d.err,
                       entry |-> [e EXCEPT !.Password = d.s]])
             ELSE IF f = <<"Email">>
             THEN LET d == IntoString(kids[1], e.Email) IN
                  IntoEntryFields(Tail(keys), Tail(kids),
                      [err |-> acc.err \/ d.err,
                       entry |-> [e EXCEPT !.Email = d.s]])
             ELSE IntoEntryFields(Tail(keys), Tail(kids), acc)

IntoEntry(v) ==
    IF v.t = "null" THEN [err |-> FALSE, entry |-> ZeroEntry]
    ELSE IF v.t = "obj"
         THEN IntoEntryFields(v.keys, v.kids, [err |-> FALSE, entry |-> ZeroEntry])
    ELSE [err |-> TRUE, entry |-> ZeroEntry]

\* type DockerConfig map[string]DockerConfigEntry   (types.go 170)
\* A value of the type: the nil map, or a map given as its set of
\* <<key, entry>> pairs, one pair per key.
NilConfig == [isNil |-> TRUE, entries |-> {}]
EmptyConfig == [isNil |-> FALSE, entries |-> {}]
Config(pairs) == [isNil |-> FALSE, entries |-> pairs]

\* cfg[k] = entry
Put(pairs, k, entry) == {q \in pairs : q[1] # k} \cup {<<k, entry>>}

Keys(c) == {q[1] : q \in c.entries}

RECURSIVE IntoConfig(_, _, _)
IntoConfig(keys, kids, acc) ==
    IF keys = <<>> THEN acc
    ELSE LET d == IntoEntry(kids[1]) IN
         IntoConfig(Tail(keys), Tail(kids),
                    [err |-> acc.err \/ d.err,
                     pairs |-> Put(acc.pairs, keys[1], d.entry)])

\* json.Unmarshal(contents, &cfg) on a nil cfg   (types.go 376)
UnmarshalDockerConfig(b) ==
    LET Decoded(d) == [err |-> d.err, cfg |-> Config(d.pairs)]
        Into(r) ==
            IF ~r.ok THEN [err |-> TRUE, cfg |-> NilConfig]
            ELSE IF r.val.t = "null" THEN [err |-> FALSE, cfg |-> NilConfig]
            ELSE IF r.val.t = "obj"
                 THEN Decoded(IntoConfig(r.val.keys, r.val.kids,
                                         [err |-> FALSE, pairs |-> {}]))
            ELSE [err |-> TRUE, cfg |-> NilConfig]
    IN  Into(ParseJSON(b))

\* ------------------------------------------------------------------------
\* The metadata endpoints (types.go 102-127)
\* ------------------------------------------------------------------------
metadataURL == <<"http", "://", "metadata.google.internal./computeMetadata/v1/">>
metadataAttributes == metadataURL \o <<"instance/attributes/">>
dockerConfigKey == metadataAttributes \o <<"google-dockercfg">>
dockerConfigURLKey == metadataAttributes \o <<"google-dockercfg-url">>
serviceAccounts == metadataURL \o <<"instance/service-accounts/">>
metadataScopes == metadataURL \o <<"instance/service-accounts/", "default/scopes">>
metadataToken == metadataURL \o <<"instance/service-accounts/", "default/token">>
metadataEmail == metadataURL \o <<"instance/service-accounts/", "default/email">>
googleapisAuth == "https://www.googleapis.com/auth/"
storageScopePrefix == <<googleapisAuth, "devstorage">>
cloudPlatformScopePrefix == <<googleapisAuth, "cloud-platform">>
defaultServiceAccount == <<"default/">>

containerRegistryUrls_NoPkgDev ==
    << <<"container.cloud.google.com">>, <<"gcr.io">>, <<"*.gcr.io">> >>
containerRegistryUrls ==
    << <<"container.cloud.google.com">>, <<"gcr.io">>, <<"*.gcr.io">>, <<"*.pkg.dev">> >>

\* var metadataHeader = &http.Header{"Metadata-Flavor": []string{"Google"}}
metadataHeader == "Metadata-Flavor: Google"
\* a nil *http.Header
nilHeader == "nil"

\* http.StatusOK
StatusOK == 200

\* The cap on a response body, in symbols. (The constant is declared outside
\* the files at hand; readURL uses it at types.go 353. Its size is scaled to
\* the documents of this model.)
maxReadLength == 128

\* ------------------------------------------------------------------------
\* net/http as readURL uses it
\* ------------------------------------------------------------------------
\* http.NewRequest parses the URL and refuses one that holds a control
\* character.
ValidURL(url) == Range(url) \cap {"\n", "\r", "\t"} = {}

\* The scheme of a URL: what stands before "://", letter case set aside.
Lower(c) == IF c = "HTTP" THEN "http" ELSE c
SchemeOf(url) ==
    LET at == {i \in 1..Len(url) : url[i] = "://"} IN
    IF at = {} THEN <<>>
    ELSE [i \in 1..(Smallest(at) - 1) |-> Lower(url[i])]
IsHTTP(url) == SchemeOf(url) \in {<<"http">>, <<"http", "s">>}

\* What the far end does with one request: the connection fails ("dial"), or
\* a response with a status and a body arrives, whose body may break off
\* while it is read ("body"). doc tells what the body was made from.
Response(fault, status, body, doc) ==
    [fault |-> fault, status |-> status, body |-> body, doc |-> doc]
Doc(kind, list) == [kind |-> kind, list |-> list]
NoDoc == Doc("none", <<>>)

\* An error value: its kind, and for an HTTPError the status code and URL.
Err(kind, code, url) == [kind |-> kind, StatusCode |-> code, URL |-> url]
NoErr == Err("nil", 0, <<>>)

\* The return of one readURL call: the body ([]byte, nil on error), the error,
\* and the requests client.Do put on the wire.
ReadResult(contents, isNil, err, wire) ==
    [contents |-> contents, isNil |-> isNil, err |-> err, wire |-> wire]

Request(url, header) == [url |-> url, header |-> header]

\* ------------------------------------------------------------------------
\* readURL (types.go 330-364)
\* ------------------------------------------------------------------------
\* limitedReader := &io.LimitedReader{R: resp.Body, N: maxReadLength}
\* contents, err := ioutil.ReadAll(limitedReader)
\* ReadAll takes what the body holds, up to N symbols; N is what is left.
LimitedRead(body) ==
    LET n == Min(Len(body), maxReadLength) IN
    [contents |-> SubSeq(body, 1, n), N |-> maxReadLength - n]

\* readURL(url, client, header) when the far end answers resp to a request
\* that reaches it. client.Do sends nothing, and fails, for a URL whose scheme
\* is not http or https (the transport of httpClient is the default one).
ReadURL_CapFirst(url, header, resp) ==
    IF ~ValidURL(url)
    THEN ReadResult(<<>>, TRUE, Err("NewRequest", 0, <<>>), <<>>)
    ELSE IF ~IsHTTP(url)
    THEN ReadResult(<<>>, TRUE, Err("Do", 0, <<>>), <<>>)
    ELSE LET wire == <<Request(url, header)>> IN
         IF resp.fault = "dial"
         THEN ReadResult(<<>>, TRUE, Err("Do", 0, <<>>), wire)
         ELSE IF resp.fault = "body"
         THEN ReadResult(<<>>, TRUE, Err("ReadAll", 0, <<>>), wire)
         ELSE IF LimitedRead(resp.body).N <= 0
         THEN ReadResult(<<>>, TRUE, Err("limit", 0, <<>>), wire)
         ELSE IF resp.status # StatusOK
         THEN ReadResult(<<>>, TRUE, Err("HTTPError", resp.status, url), wire)
         ELSE ReadResult(LimitedRead(resp.body).contents, FALSE, NoErr, wire)
ReadURL(url, header, resp) ==
    IF ~ValidURL(url)
    THEN ReadResult(<<>>, TRUE, Err("NewRequest", 0, <<>>), <<>>)
    ELSE IF ~IsHTTP(url)
    THEN ReadResult(<<>>, TRUE, Err("Do", 0, <<>>), <<>>)
    ELSE LET wire == <<Request(url, header)>> IN
         IF resp.fault = "dial"
         THEN ReadResult(<<>>, TRUE, Err("Do", 0, <<>>), wire)
         ELSE IF resp.status # StatusOK
         THEN ReadResult(<<>>, TRUE, Err("HTTPError", resp.status, url), wire)
         ELSE IF resp.fault = "body"
         THEN ReadResult(<<>>, TRUE, Err("ReadAll", 0, <<>>), wire)
         ELSE IF LimitedRead(resp.body).N <= 0
         THEN ReadResult(<<>>, TRUE, Err("limit", 0, <<>>), wire)
         ELSE ReadResult(LimitedRead(resp.body).contents, FALSE, NoErr, wire)

\* One readURL call as the model records it.
Read(url, header, resp) ==
    [url |-> url, header |-> header, resp |-> resp,
     out |-> ReadURL(url, header, resp)]

\* ------------------------------------------------------------------------
\* What the far end serves
\* ------------------------------------------------------------------------
JString(str) == <<Quote>> \o str \o <<Quote>>

RECURSIVE MapSeq(_, _)
MapSeq(Op(_), list) ==
    IF list = <<>> THEN <<>> ELSE <<Op(list[1])>> \o MapSeq(Op, Tail(list))

\* body, filled up with spaces to n symbols
PadTo(body, n) == body \o [i \in 1..(n - Len(body)) |-> " "]

\* Answers any endpoint may give instead of its document.
Outages ==
    { Response("dial", 0, <<>>, NoDoc),
      Response("none", 404, <<"Not Found">>, NoDoc),
      Response("none", 503, <<>>, NoDoc),
      Response("body", StatusOK, <<>>, NoDoc) }

\* The documents of a set, each as a 200 response; one of them also filled up
\* to one symbol short of the cap and to the cap itself.
Served(docs, Render(_), sample) ==
    {Response("none", StatusOK, Render(d), d) : d \in docs}
    \cup {Response("none", StatusOK, PadTo(Render(sample), n), sample) :
             n \in {maxReadLength - 1, maxReadLength}}

\* -- the service-account listing: one account directory per line
\* "plain": the names, a newline between them; "terminated": a newline after
\* each; "padded": each line set in white space as well.
AccountNames == { <<"default/">>, <<"other/">>, <<"my", "default/">> }
ListingDocs ==
    {Doc(k, l) : k \in {"plain", "terminated", "padded"},
                 l \in SeqsUpTo(AccountNames, MaxAccounts)}
PadLine(name) == <<" ">> \o name \o <<" ", "\r">>
RenderListing(d) ==
    CASE d.kind = "plain" -> Join(d.list, "\n")
      [] d.kind = "terminated" -> Join(d.list, "\n") \o <<"\n">>
      [] d.kind = "padded" -> Join(MapSeq(PadLine, d.list), "\n") \o <<"\n">>
ListingResponses ==
    Outages \cup Served(ListingDocs, RenderListing, Doc("plain", << <<"default/">> >>))

\* -- the scopes of the default account: a JSON array of strings
ScopeSpecs ==
    { [pre |-> <<>>, base |-> "devstorage", suf |-> <<".read_only">>],
      [pre |-> <<>>, base |-> "cloud-platform", suf |-> <<>>],
      [pre |-> <<>>, base |-> "compute", suf |-> <<>>],
      [pre |-> <<" ">>, base |-> "devstorage", suf |-> <<>>] }
RenderScope(sc) == sc.pre \o <<googleapisAuth, sc.base>> \o sc.suf
JScope(sc) == JString(RenderScope(sc))
RenderArray(items) == <<"[">> \o Join(items, ",") \o <<"]">>
ScopesDocs ==
    {Doc(k, l) : k \in {"array", "spaced", "truncated", "object", "number"},
                 l \in SeqsUpTo(ScopeSpecs, MaxScopes)}
    \cup {Doc("null", <<>>), Doc("nothing", <<>>)}
RenderScopes(d) ==
    LET items == MapSeq(JScope, d.list)
        array == RenderArray(items)
    IN  CASE d.kind = "array" -> array
          [] d.kind = "spaced" ->
                <<" ", "[", "\n">> \o Join(items, ",") \o <<" ", "]", "\n">>
          [] d.kind = "truncated" -> SubSeq(array, 1, Len(array) - 1)
          [] d.kind = "object" ->
                <<"{">> \o JString(<<"scopes">>) \o <<":">> \o array \o <<"}">>
          [] d.kind = "number" -> RenderArray(Append(items, <<"7">>))
          [] d.kind = "null" -> <<"null">>
          [] d.kind = "nothing" -> <<>>
ScopesResponses ==
    Outages \cup Served(ScopesDocs, RenderScopes,
                        Doc("array", << [pre |-> <<>>, base |-> "devstorage",
                                         suf |-> <<".read_only">>] >>))

\* ------------------------------------------------------------------------
\* HasStorageScope (types.go 206-253)
\* ------------------------------------------------------------------------
\* for _, sa := range strings.Split(string(value), "\n") {
\*     if strings.TrimSpace(sa) == defaultServiceAccount { ... = true; break } }
DefaultServiceAccountExists(value) ==
    \E i \in 1..Len(Split(value, "\n")) :
        TrimSpace(Split(value, "\n")[i]) = defaultServiceAccount

\* json.Unmarshal(value, &scopes), then the loop over the scopes
AcceptedScope_StorageOnly(v) == HasPrefix(v, storageScopePrefix)
AcceptedScope(v) ==
    HasPrefix(v, storageScopePrefix) \/ HasPrefix(v, cloudPlatformScopePrefix)
ScopesGrantStorage(value) ==
    LET d == UnmarshalScopes(value) IN
    /\ ~d.err
    /\ \E i \in 1..Len(d.scopes) : AcceptedScope(d.scopes[i])

\* One invocation of the first closure handed to runWithBackoff:
\* readURL(serviceAccounts, httpClient, metadataHeader). On success
\* runWithBackoff returns and the listing is searched for "default/".
HasStorageScope_ReadAccounts ==
    /\ op \in {"idle", "HasStorageScope"}
    /\ hs = "accounts"
    /\ \E resp \in ListingResponses :
         LET rd == Read(serviceAccounts, metadataHeader, resp) IN
         /\ reads' = <<rd>>
         /\ IF rd.out.err = NoErr
            THEN /\ listing' = resp.doc
                 /\ tries' = 0
                 /\ delay' = initialBackoff
                 /\ hs' = IF DefaultServiceAccountExists(rd.out.contents)
                          THEN "scopes" ELSE "done"
            ELSE /\ tries < MaxRetry
                 /\ tries' = tries + 1
                 /\ hs' = "sleepAccounts"
                 /\ UNCHANGED <<listing, delay>>
    /\ op' = "HasStorageScope"
    /\ enabled' = FALSE
    /\ UNCHANGED <<cfg, provided, backoffVars, cacheVars, platformVars, migrationVars, dnsVars>>

\* One invocation of the second closure:
\* readURL(metadataScopes + "?alt=json", httpClient, metadataHeader).
HasStorageScope_ReadScopes ==
    /\ op = "HasStorageScope"
    /\ hs = "scopes"
    /\ \E resp \in ScopesResponses :
         LET rd == Read(metadataScopes \o <<"?alt=json">>, metadataHeader, resp) IN
         /\ reads' = <<rd>>
         /\ IF rd.out.err = NoErr
            THEN /\ tries' = 0
                 /\ delay' = initialBackoff
                 /\ hs' = "done"
                 /\ enabled' = ScopesGrantStorage(rd.out.contents)
            ELSE /\ tries < MaxRetry
                 /\ tries' = tries + 1
                 /\ hs' = "sleepScopes"
                 /\ enabled' = FALSE
                 /\ delay' = delay
    /\ UNCHANGED <<op, listing, cfg, provided, backoffVars, cacheVars, platformVars, migrationVars, dnsVars>>

\* time.Sleep(backoff) and the doubling, in either runWithBackoff; the
\* variable starts over at 100ms when the next runWithBackoff is entered.
HasStorageScope_Sleep ==
    /\ op = "HasStorageScope"
    /\ hs \in {"sleepAccounts", "sleepScopes"}
    /\ hs' = IF hs = "sleepAccounts" THEN "accounts" ELSE "scopes"
    /\ delay' = NextBackoff(delay)
    /\ reads' = <<>>
    /\ UNCHANGED <<op, tries, listing, enabled, cfg, provided, backoffVars, cacheVars, platformVars, migrationVars, dnsVars>>

\* -- a credential document: a JSON object, registry host -> entry
RegistryHosts == { <<"gcr.io">>, <<"registry.example.com">> }
EntrySpecs == [host : RegistryHosts, form : {"full", "partial"}]
Member(name, value) == JString(<<name>>) \o <<":">> \o value
RenderObject(members) == <<"{">> \o Join(members, ",") \o <<"}">>
RenderEntry(e) ==
    JString(e.host) \o <<":">> \o
    (IF e.form = "full"
     THEN RenderObject(<< Member("Username", JString(<<"u1">>)),
                          Member("Password", JString(<<"p1">>)),
                          Member("Email", JString(<<"e1">>)) >>)
     ELSE RenderObject(<< Member("username", JString(<<"u2">>)),
                          Member("auth", JString(<<"dTI6cDI=">>)),
                          Member("password", JString(<<"p2">>)),
                          Member("email", <<"null">>) >>))
\* The entry a well-formed document gives a host.
EntryOf(e) ==
    IF e.form = "full"
    THEN DockerConfigEntry(<<"u1">>, <<"p1">>, <<"e1">>)
    ELSE DockerConfigEntry(<<"u2">>, <<"p2">>, <<>>)
ConfigDocs ==
    {Doc(k, l) : k \in {"object", "truncated", "array"},
                 l \in SeqsUpTo(EntrySpecs, MaxEntries)}
    \cup {Doc("null", <<>>), Doc("nothing", <<>>)}
RenderConfig(d) ==
    LET object == RenderObject(MapSeq(RenderEntry, d.list)) IN
    CASE d.kind = "object" -> object
      [] d.kind = "truncated" -> SubSeq(object, 1, Len(object) - 1)
      [] d.kind = "array" -> <<"[">> \o object \o <<"]">>
      [] d.kind = "null" -> <<"null">>
      [] d.kind = "nothing" -> <<>>
ConfigResponses ==
    Outages \cup Served(ConfigDocs, RenderConfig,
                        Doc("object", << [host |-> <<"gcr.io">>, form |-> "full"] >>))

\* -- the access token blob and the email of the default account
AccessTokens == { <<"T">>, <<"ya29", ".c">> }
TokenDocs ==
    {Doc(k, <<t>>) : k \in {"blob", "upper", "notoken", "truncated", "array", "number"},
                     t \in AccessTokens}
RenderToken(d) ==
    LET blob == RenderObject(<< Member("access_token", JString(d.list[1])),
                                Member("expires_in", <<"7">>),
                                Member("token_type", JString(<<"Bearer">>)) >>)
    IN  CASE d.kind = "blob" -> blob
          [] d.kind = "upper" ->
                RenderObject(<< Member("ACCESS_TOKEN", JString(d.list[1])) >>)
          [] d.kind = "notoken" ->
                RenderObject(<< Member("token_type", JString(<<"Bearer">>)) >>)
          [] d.kind = "truncated" -> SubSeq(blob, 1, Len(blob) - 1)
          [] d.kind = "array" -> RenderArray(<<JString(d.list[1])>>)
          [] d.kind = "number" ->
                RenderObject(<< Member("access_token", <<"7">>) >>)
TokenResponses ==
    Outages \cup Served(TokenDocs, RenderToken, Doc("blob", << <<"T">> >>))

EmailDocs == {Doc("email", <<e>>) : e \in { <<"e@x">>, <<"e@x", "\n">>, <<>> }}
RenderText(d) == d.list[1]
EmailResponses ==
    Outages \cup Served(EmailDocs, RenderText, Doc("email", << <<"e@x">> >>))

\* -- the value of the google-dockercfg-url attribute
URLValues ==
    { <<"http", "://", "registry.example.com/dockercfg">>,
      <<"http", "s", "://", "registry.example.com/dockercfg">>,
      <<"http", "x", "://", "registry.example.com/dockercfg">>,
      <<"http", "d.example.com/dockercfg">>,
      <<"HTTP", "://", "registry.example.com/dockercfg">>,
      <<"gs", "://", "bucket/dockercfg">>,
      <<" ", "http", "://", "registry.example.com/dockercfg">>,
      <<"http", "://", "registry.example.com/dockercfg", "\n">>,
      <<>>,
      dockerConfigKey }
URLDocs == {Doc("url", <<u>>) : u \in URLValues}
URLResponses ==
    Outages \cup Served(URLDocs, RenderText,
                        Doc("url", << <<"http", "://", "registry.example.com/dockercfg">> >>))

\* ------------------------------------------------------------------------
\* The credential functions of package gcpcredentials (types.go 255-380)
\* ------------------------------------------------------------------------
\* if err = json.Unmarshal(contents, &cfg); err != nil { return nil, errors.New(..) }
\* return
readDockerConfigFileFromBytes(contents) ==
    LET Result(d) ==
            IF d.err THEN [cfg |-> NilConfig, err |-> Err("unmarshal", 0, <<>>)]
            ELSE [cfg |-> d.cfg, err |-> NoErr]
    IN  Result(UnmarshalDockerConfig(contents))

\* if contents, err := readURL(url, client, header); err == nil {
\*     return readDockerConfigFileFromBytes(contents) }
\* return nil, err
\* The err of the if statement is its own variable; the err returned on the
\* last line is the named result, which nothing has set.
ReadDockerConfigFileFromURL(url, header, resp) ==
    LET Both(rd, parsed) ==
            [cfg |-> parsed.cfg, err |-> parsed.err, reads |-> <<rd>>]
        After(rd) ==
            IF rd.out.err = NoErr
            THEN Both(rd, readDockerConfigFileFromBytes(rd.out.contents))
            ELSE [cfg |-> NilConfig, err |-> NoErr, reads |-> <<rd>>]
    IN  After(Read(url, header, resp))

\* ProvideDockerConfigKey (types.go 255-266), the far end answering resp
ProvideDockerConfigKey(resp) ==
    LET After(r) ==
            IF r.err # NoErr
            THEN [cfg |-> EmptyConfig, reads |-> r.reads]
            ELSE [cfg |-> r.cfg, reads |-> r.reads]
    IN  After(ReadDockerConfigFileFromURL(dockerConfigKey, metadataHeader, resp))

\* strings.HasPrefix(string(url), "http")
HasHTTPPrefix(url) == HasPrefix(url, <<"http">>)

\* ProvideDockerConfigURLKey (types.go 268-287): resp1 answers the read of the
\* attribute, resp2 the read of the URL the attribute names
ProvideDockerConfigURLKey_HeaderKept(resp1, resp2) ==
    LET Second(rd1, r) ==
            IF r.err # NoErr
            THEN [cfg |-> EmptyConfig, reads |-> <<rd1>> \o r.reads]
            ELSE [cfg |-> r.cfg, reads |-> <<rd1>> \o r.reads]
        After(rd1, url) ==
            IF rd1.out.err # NoErr
            THEN [cfg |-> EmptyConfig, reads |-> <<rd1>>]
            ELSE IF HasHTTPPrefix(url)
            THEN Second(rd1, ReadDockerConfigFileFromURL(url, metadataHeader, resp2))
            ELSE [cfg |-> EmptyConfig, reads |-> <<rd1>>]
        First(rd1) == After(rd1, rd1.out.contents)
    IN  First(Read(dockerConfigURLKey, metadataHeader, resp1))
ProvideDockerConfigURLKey(resp1, resp2) ==
    LET Second(rd1, r) ==
            IF r.err # NoErr
            THEN [cfg |-> EmptyConfig, reads |-> <<rd1>> \o r.reads]
            ELSE [cfg |-> r.cfg, reads |-> <<rd1>> \o r.reads]
        After(rd1, url) ==
            IF rd1.out.err # NoErr
            THEN [cfg |-> EmptyConfig, reads |-> <<rd1>>]
            ELSE IF HasHTTPPrefix(url)
            THEN Second(rd1, ReadDockerConfigFileFromURL(url, nilHeader, resp2))
            ELSE [cfg |-> EmptyConfig, reads |-> <<rd1>>]
        First(rd1) == After(rd1, rd1.out.contents)
    IN  First(Read(dockerConfigURLKey, metadataHeader, resp1))

\* for _, k := range containerRegistryUrls { cfg[k] = entry }
RECURSIVE PutAll(_, _, _)
PutAll(pairs, keys, entry) ==
    IF keys = <<>> THEN pairs
    ELSE PutAll(Put(pairs, keys[1], entry), Tail(keys), entry)

\* ProvideContainerRegistry (types.go 295-328): respT answers the read of the
\* token endpoint, respE the read of the email endpoint
ProvideContainerRegistry(respT, respE) ==
    LET rdT == Read(metadataToken, metadataHeader, respT)
        rdE == Read(metadataEmail, metadataHeader, respE)
        parsedBlob == UnmarshalTokenBlob(rdT.out.contents)
        entry == DockerConfigEntry(<<"_token">>, parsedBlob.AccessToken,
                                   rdE.out.contents)
    IN  IF rdT.out.err # NoErr
        THEN [cfg |-> EmptyConfig, reads |-> <<rdT>>]
        ELSE IF rdE.out.err # NoErr
        THEN [cfg |-> EmptyConfig, reads |-> <<rdT, rdE>>]
        ELSE IF parsedBlob.err
        THEN [cfg |-> EmptyConfig, reads |-> <<rdT, rdE>>]
        ELSE [cfg |-> Config(PutAll({}, containerRegistryUrls, entry)),
              reads |-> <<rdT, rdE>>]

\* ------------------------------------------------------------------------
\* The registered providers (metadata.go 115-182)
\* ------------------------------------------------------------------------
\* cfg := credentialprovider.DockerConfig{}
\* for key, value := range gcpCfg { cfg[key] = DockerConfigEntry{...} }
CopyConfig(gcpCfg) ==
    Config({<<q[1], DockerConfigEntry(q[2].Username, q[2].Password, q[2].Email)>> :
              q \in gcpCfg.entries})

Returned(name, r) ==
    /\ op' = name
    /\ reads' = r.reads
    /\ cfg' = r.cfg
    /\ provided' = CopyConfig(r.cfg)
    /\ UNCHANGED <<hs, tries, delay, listing, enabled, backoffVars, cacheVars, platformVars, migrationVars, dnsVars>>

\* (g *dockerConfigKeyProvider) Provide
DockerConfigKeyProvider_Provide ==
    /\ op = "idle"
    /\ \E resp \in ConfigResponses :
         Returned("dockerConfigKeyProvider", ProvideDockerConfigKey(resp))

\* (g *dockerConfigURLKeyProvider) Provide
DockerConfigURLKeyProvider_Provide ==
    /\ op = "idle"
    /\ \E resp1 \in URLResponses, resp2 \in ConfigResponses :
         Returned("dockerConfigURLKeyProvider",
                  ProvideDockerConfigURLKey(resp1, resp2))

\* (g *containerRegistryProvider) Provide
ContainerRegistryProvider_Provide ==
    /\ op = "idle"
    /\ \E respT \in TokenResponses, respE \in EmailResponses :
         Returned("containerRegistryProvider",
                  ProvideContainerRegistry(respT, respE))

\* ------------------------------------------------------------------------
\* readURL called on its own
\* ------------------------------------------------------------------------
Statuses == {StatusOK, 204, 404, 503}
\* a body of n symbols, no two neighbours alike
Body(n) == [i \in 1..n |-> IF i % 2 = 1 THEN "a" ELSE "b"]
BodyLengths == (0..2) \cup ((maxReadLength - 2)..(maxReadLength + 2))
AnyResponses ==
    {Response(f, st, Body(n), NoDoc) :
        f \in {"none", "body"}, st \in Statuses, n \in BodyLengths}
    \cup {Response("dial", 0, <<>>, NoDoc)}

CallReadURL ==
    /\ op = "idle"
    /\ \E url \in {dockerConfigKey, <<"http", "s", "://", "registry.example.com/dockercfg">>,
                   <<"gs", "://", "bucket/dockercfg">>},
          header \in {metadataHeader, nilHeader},
          resp \in AnyResponses :
         reads' = <<Read(url, header, resp)>>
    /\ op' = "readURL"
    /\ UNCHANGED <<hs, tries, delay, listing, enabled, cfg, provided, backoffVars, cacheVars, platformVars, migrationVars, dnsVars>>

\* ------------------------------------------------------------------------
\* The specification of the metadata functions
\* ------------------------------------------------------------------------
BackoffIdle ==
    /\ pc = "idle"
    /\ opFails = 0
    /\ calls = 0
    /\ backoff = initialBackoff
    /\ slept = <<>>
    /\ ret = NoValue

Init ==
    /\ BackoffIdle /\ MetadataIdle /\ CacheIdle /\ PlatformIdle
    /\ MigrationIdle /\ DNSPolicyIdle

Next ==
    \/ HasStorageScope_ReadAccounts
    \/ HasStorageScope_ReadScopes
    \/ HasStorageScope_Sleep
    \/ DockerConfigKeyProvider_Provide
    \/ DockerConfigURLKeyProvider_Provide
    \/ ContainerRegistryProvider_Provide
    \/ CallReadURL

Spec == Init /\ [][Next]_vars

\* ------------------------------------------------------------------------
\* The caching wrapper init() puts around the two document providers
\* (metadata.go 82-95), with the state machine
\* Empty -> Refreshing -> Valid(until) -> Refreshing -> ...
\* ------------------------------------------------------------------------
\* Lifetime: 60 * time.Second
Lifetime == 60

\* What the underlying Provide can return: one of two credential sets.
Fetched == {"old", "new"}

\* A Valid entry is expired on a read after until.
Fresh == cached.state = "Valid" /\ now <= cached.until

\* Provide is called by goroutine c: a fresh entry is served as it is; on an
\* Empty or expired entry c issues the underlying fetch; while a fetch is
\* under way c waits for it.
Cache_Provide_NoCoalesce(c) ==
    /\ caller[c] = "idle"
    /\ provides < MaxProvides
    /\ provides' = provides + 1
    /\ IF Fresh
       THEN /\ caller' = [caller EXCEPT ![c] = "served"]
            /\ got' = [got EXCEPT ![c] = cached.value]
            /\ UNCHANGED <<cached, ticket, fetches>>
       ELSE /\ cached' = CacheEntry("Refreshing", cached.until, cached.value)
            /\ fetches' = fetches + 1
            /\ ticket' = [ticket EXCEPT ![c] = fetches + 1]
            /\ caller' = [caller EXCEPT ![c] = "fetching"]
            /\ UNCHANGED got
    /\ UNCHANGED <<now, ticks, results, backoffVars, metadataVars, platformVars, migrationVars, dnsVars>>
Cache_Provide(c) ==
    /\ caller[c] = "idle"
    /\ provides < MaxProvides
    /\ provides' = provides + 1
    /\ IF Fresh
       THEN /\ caller' = [caller EXCEPT ![c] = "served"]
            /\ got' = [got EXCEPT ![c] = cached.value]
            /\ UNCHANGED <<cached, ticket, fetches>>
       ELSE IF cached.state = "Refreshing"
       THEN /\ caller' = [caller EXCEPT ![c] = "waiting"]
            /\ ticket' = [ticket EXCEPT ![c] = fetches]
            /\ UNCHANGED <<cached, got, fetches>>
       ELSE /\ cached' = CacheEntry("Refreshing", cached.until, cached.value)
            /\ fetches' = fetches + 1
            /\ ticket' = [ticket EXCEPT ![c] = fetches + 1]
            /\ caller' = [caller EXCEPT ![c] = "fetching"]
            /\ UNCHANGED got
    /\ UNCHANGED <<now, ticks, results, backoffVars, metadataVars, platformVars, migrationVars, dnsVars>>

\* The underlying fetch of goroutine c returns: the entry becomes
\* Valid(now + Lifetime) with what was fetched, and c is served with it.
Cache_FetchReturns(c) ==
    /\ caller[c] = "fetching"
    /\ \E v \in Fetched :
         /\ results' = Append(results, v)
         /\ cached' = CacheEntry("Valid", now + Lifetime, v)
         /\ got' = [got EXCEPT ![c] = v]
    /\ caller' = [caller EXCEPT ![c] = "served"]
    /\ UNCHANGED <<now, ticks, ticket, fetches, provides, backoffVars, metadataVars, platformVars, migrationVars, dnsVars>>

\* The fetch goroutine c waits for has returned: c is served with its result.
Cache_WaitEnds(c) ==
    /\ caller[c] = "waiting"
    /\ ticket[c] <= Len(results)
    /\ got' = [got EXCEPT ![c] = results[ticket[c]]]
    /\ caller' = [caller EXCEPT ![c] = "served"]
    /\ UNCHANGED <<now, ticks, cached, ticket, fetches, results, provides,
                   backoffVars, metadataVars, platformVars, migrationVars, dnsVars>>

\* Provide has returned to goroutine c, which may call again.
Cache_Return(c) ==
    /\ caller[c] = "served"
    /\ caller' = [caller EXCEPT ![c] = "idle"]
    /\ ticket' = [ticket EXCEPT ![c] = 0]
    /\ got' = [got EXCEPT ![c] = NoResult]
    /\ UNCHANGED <<now, ticks, cached, fetches, results, provides,
                   backoffVars, metadataVars, platformVars, migrationVars, dnsVars>>

\* Time passes.
Cache_Tick ==
    /\ ticks < MaxTicks
    /\ ticks' = ticks + 1
    /\ now' = now + Lifetime \div 2
    /\ UNCHANGED <<cached, caller, ticket, got, fetches, results, provides,
                   backoffVars, metadataVars, platformVars, migrationVars, dnsVars>>

NextCache ==
    \/ \E c \in Callers : Cache_Provide(c)
    \/ \E c \in Callers : Cache_FetchReturns(c)
    \/ \E c \in Callers : Cache_WaitEnds(c)
    \/ \E c \in Callers : Cache_Return(c)
    \/ Cache_Tick

SpecCache == Init /\ [][NextCache]_vars

\* ------------------------------------------------------------------------
\* OnGCEVM (types.go 179-204) and the Enabled methods (metadata.go 104-165)
\* ------------------------------------------------------------------------
\* strings.Split(s, "\r\n"): the pieces between the places where a carriage
\* return is followed by a line feed.
SplitCRLF(s) ==
    LET IsSep(i) == i < Len(s) /\ s[i] = "\r" /\ s[i + 1] = "\n"
        at == Places(s, IsSep)
    IN  [k \in 1..(Len(at) + 1) |->
            SubSeq(s, IF k = 1 THEN 1 ELSE at[k - 1] + 2,
                      IF k = Len(at) + 1 THEN Len(s) ELSE at[k] - 1)]

\* return name == "Google" || name == "Google Compute Engine"
IsGCEName_GoogleOnly(name) == name = <<"Google">>
IsGCEName(name) ==
    name = <<"Google">> \/ name = <<"Google", " ", "Compute", " ", "Engine">>

\* OnGCEVM on a host with runtime.GOOS = os, where the wmic command (on
\* windows) or the read of the product file (elsewhere) gives pr: an error
\* (pr.fault) or the bytes pr.data.
OnGCEVM(os, pr) ==
    IF os = "windows"
    THEN LET Model(fields) == IF Len(fields) # 2 THEN FALSE
                              ELSE IsGCEName(fields[2])
         IN  IF pr.fault THEN FALSE
             ELSE Model(SplitCRLF(TrimSpace(pr.data)))
    ELSE IF pr.fault THEN FALSE
         ELSE IsGCEName(TrimSpace(pr.data))

\* -- what the probe can give
GOOS == {"linux", "darwin", "windows"}
ProductNames ==
    { <<"Google">>,
      <<"Google", " ", "Compute", " ", "Engine">>,
      <<"Google", " ", " ", "Compute", " ", "Engine">>,
      <<"Google", "\n", "Compute", " ", "Engine">>,
      <<"Google", " ", "Inc.">>,
      <<"google">>,
      <<"Compute", " ", "Engine">>,
      <<>> }
\* the product file: the name with white space around it
FileDocs ==
    [kind : {"file"}, base : ProductNames,
     pre : {<<>>, <<" ">>, <<"\n">>},
     post : {<<>>, <<"\n">>, <<" ", "\r", "\n">>}]
\* the output of wmic: a header line and the model, in lines that end in
\* CR LF ("table") or CR CR LF ("tableCR"), followed by an empty line; or
\* something else
WmicDocs ==
    [kind : {"table", "tableCR", "bare", "twoRows", "unix"},
     base : ProductNames, lead : {<<>>, <<" ">>}]
RenderProbe(d) ==
    CASE d.kind = "file" -> d.pre \o d.base \o d.post
      [] d.kind = "table" ->
            <<"Model", " ", " ", "\r", "\n">> \o d.lead \o d.base
            \o <<" ", " ", "\r", "\n", "\r", "\n">>
      [] d.kind = "tableCR" ->
            <<"Model", " ", "\r", "\r", "\n">> \o d.lead \o d.base
            \o <<" ", "\r", "\r", "\n", "\r", "\r", "\n">>
      [] d.kind = "bare" -> d.lead \o d.base \o <<"\r", "\n">>
      [] d.kind = "twoRows" ->
            <<"Model", "\r", "\n">> \o d.lead \o d.base \o <<"\r", "\n">>
            \o d.base \o <<"\r", "\n">>
      [] d.kind = "unix" -> <<"Model", "\n">> \o d.lead \o d.base \o <<"\n">>
Probes(os) ==
    {[fault |-> TRUE, data |-> <<>>, doc |-> [kind |-> "none"]]}
    \cup {[fault |-> FALSE, data |-> RenderProbe(d), doc |-> d] :
             d \in IF os = "windows" THEN WmicDocs ELSE FileDocs}

\* OnGCEVM is called on its own.
CallOnGCEVM ==
    /\ epc = "idle"
    /\ \E os \in GOOS :
         \E pr \in Probes(os) :
            /\ goos' = os
            /\ probe' = pr
            /\ onGCE' = OnGCEVM(os, pr)
    /\ who' = "OnGCEVM"
    /\ epc' = "returned"
    /\ UNCHANGED <<result, backoffVars, metadataVars, cacheVars, migrationVars, dnsVars>>

\* func (g *metadataProvider) Enabled() bool { return onGCEVM() }: the method
\* of the two document providers.
MetadataProvider_Enabled ==
    /\ epc = "idle"
    /\ \E os \in GOOS :
         \E pr \in Probes(os) :
            /\ onGCE' = OnGCEVM(os, pr)
            /\ result' = OnGCEVM(os, pr)
    /\ who' \in {"dockerConfigKeyProvider", "dockerConfigURLKeyProvider"}
    /\ epc' = "returned"
    /\ UNCHANGED <<goos, probe, backoffVars, metadataVars, cacheVars, migrationVars, dnsVars>>

\* containerRegistryProvider.Enabled, up to the call of HasStorageScope:
\* if !gcpcredentials.OnGCEVM() { return false }
ContainerRegistryProvider_Enabled_ScopeFirst ==
    /\ epc = "idle"
    /\ \E os \in GOOS :
         \E pr \in Probes(os) : onGCE' = OnGCEVM(os, pr)
    /\ who' = "containerRegistryProvider"
    /\ epc' = "scope"
    /\ UNCHANGED <<result, goos, probe, backoffVars, metadataVars, cacheVars, migrationVars, dnsVars>>
ContainerRegistryProvider_Enabled ==
    /\ epc = "idle"
    /\ \E os \in GOOS :
         \E pr \in Probes(os) :
            /\ onGCE' = OnGCEVM(os, pr)
            /\ epc' = IF OnGCEVM(os, pr) THEN "scope" ELSE "returned"
    /\ who' = "containerRegistryProvider"
    /\ UNCHANGED <<result, goos, probe, backoffVars, metadataVars, cacheVars, migrationVars, dnsVars>>

\* return gcpcredentials.HasStorageScope(): the steps of HasStorageScope ...
Enabled_ReadAccounts == epc = "scope" /\ HasStorageScope_ReadAccounts
Enabled_ReadScopes == epc = "scope" /\ HasStorageScope_ReadScopes
Enabled_Sleep == epc = "scope" /\ HasStorageScope_Sleep

\* ... and the return of what it returned.
ContainerRegistryProvider_Enabled_Return ==
    /\ epc = "scope"
    /\ hs = "done"
    /\ result' = enabled
    /\ epc' = "returned"
    /\ UNCHANGED <<who, goos, probe, onGCE, backoffVars, metadataVars, cacheVars, migrationVars, dnsVars>>

NextEnabled ==
    \/ CallOnGCEVM
    \/ MetadataProvider_Enabled
    \/ ContainerRegistryProvider_Enabled
    \/ Enabled_ReadAccounts
    \/ Enabled_ReadScopes
    \/ Enabled_Sleep
    \/ ContainerRegistryProvider_Enabled_Return

SpecEnabled == Init /\ [][NextEnabled]_vars

\* ------------------------------------------------------------------------
\* The migration config (metadata.go 206-276)
\* ------------------------------------------------------------------------
ccm == "cloud-controller-manager"
kcm == "kube-controller-manager"

\* The names SetComponent is called with.
ComponentNames ==
    {ccm, kcm, "", "kube-scheduler", "cloud-controller-manager ", "CCM",
     "Kube-Controller-Manager"}

\* func (m *dummyMigrationConfig) SetComponent(component string) error
\* After the assignment the function ends without a return statement: what
\* the caller gets then is left open.
SetComponent(name) ==
    /\ sets < MaxSets
    /\ sets' = sets + 1
    /\ setArg' = name
    /\ setPrev' = component
    /\ IF name # ccm /\ name # kcm
       THEN /\ setErr' = "error"
            /\ UNCHANGED component
       ELSE /\ component' = name
            /\ setErr' \in {"nil", "error"}
    /\ UNCHANGED <<asked, answers, backoffVars, metadataVars, cacheVars, platformVars, dnsVars>>

\* The four answers, each <<run, under the migration lock>>.
CloudNodeController(c) == <<TRUE, TRUE>>
ServiceController(c) == IF c = ccm THEN <<TRUE, FALSE>> ELSE <<FALSE, FALSE>>
RouteController_InCCM(c) == IF c = ccm THEN <<TRUE, FALSE>> ELSE <<FALSE, FALSE>>
RouteController(c) == IF c = kcm THEN <<TRUE, FALSE>> ELSE <<FALSE, FALSE>>
NodeIPAMController(c) == IF c = ccm THEN <<TRUE, FALSE>> ELSE <<FALSE, FALSE>>

\* The four methods are called on the config as it stands.
AskControllers ==
    /\ asked' = component
    /\ answers' = [cloudNode |-> CloudNodeController(component),
                   service |-> ServiceController(component),
                   route |-> RouteController(component),
                   nodeIPAM |-> NodeIPAMController(component)]
    /\ UNCHANGED <<component, sets, setArg, setPrev, setErr,
                   backoffVars, metadataVars, cacheVars, platformVars, dnsVars>>

NextMigration ==
    \/ \E name \in ComponentNames : SetComponent(name)
    \/ AskControllers

SpecMigration == Init /\ [][NextMigration]_vars

\* ------------------------------------------------------------------------
\* dnsPolicyStrategy (part_000 45-57) on DNSPolicy objects (types.go 28-59)
\* ------------------------------------------------------------------------
\* A DNSPolicy: ObjectMeta.Generation, ObjectMeta.Labels and
\* Spec.AllowedDomains, a slice that is nil or holds domains.
DNSPolicy(generation, labels, domains) ==
    [kind |-> "DNSPolicy", Generation |-> generation, Labels |-> labels,
     AllowedDomains |-> domains]
Slices ==
    {[isNil |-> TRUE, items |-> <<>>], [isNil |-> FALSE, items |-> <<>>],
     [isNil |-> FALSE, items |-> <<"*.example.com">>]}
LabelSets == {{}, {"app"}}
\* What a client may send for an object whose stored generation is g.
Objects(g) ==
    {DNSPolicy(n, l, d) : n \in {0, g, g + 2}, l \in LabelSets, d \in Slices}

\* reflect.DeepEqual on two DNSPolicy objects: every field alike, a nil
\* slice unlike an empty one.
DeepEqual(a, b) == a = b

\* dnsPolicy.Generation = 1
PrepareForCreate(obj) == [obj EXCEPT !.Generation = 1]

\* if !reflect.DeepEqual(oldDNSPolicy, newDNSPolicy) {
\*     newDNSPolicy.Generation = oldDNSPolicy.Generation + 1 }
PrepareForUpdate_SpecOnly(obj, old) ==
    IF obj.AllowedDomains # old.AllowedDomains
    THEN [obj EXCEPT !.Generation = old.Generation + 1]
    ELSE obj
PrepareForUpdate(obj, old) ==
    IF ~DeepEqual(old, obj)
    THEN [obj EXCEPT !.Generation = old.Generation + 1]
    ELSE obj

\* The object is created: what PrepareForCreate leaves of it is stored.
DNSPolicy_Create ==
    /\ stored = NoObject
    /\ \E obj \in Objects(0) :
         /\ submitted' = obj
         /\ stored' = PrepareForCreate(obj)
    /\ last' = "create"
    /\ UNCHANGED <<before, updates, backoffVars, metadataVars, cacheVars,
                   platformVars, migrationVars>>

\* The object is updated: what PrepareForUpdate leaves of the new object,
\* given the stored one, is stored.
DNSPolicy_Update ==
    /\ stored # NoObject
    /\ updates < MaxUpdates
    /\ updates' = updates + 1
    /\ \E obj \in Objects(stored.Generation) :
         /\ submitted' = obj
         /\ stored' = PrepareForUpdate(obj, stored)
    /\ before' = stored
    /\ last' = "update"
    /\ UNCHANGED <<backoffVars, metadataVars, cacheVars, platformVars, migrationVars>>

NextDNSPolicy ==
    \/ DNSPolicy_Create
    \/ DNSPolicy_Update

SpecDNSPolicy == Init /\ [][NextDNSPolicy]_vars

\* ------------------------------------------------------------------------
\* C3 .. C8, C10
\* ------------------------------------------------------------------------
Providers ==
    {"dockerConfigKeyProvider", "dockerConfigURLKeyProvider",
     "containerRegistryProvider"}

\* What a served document says, read off what it was made from.
ListsDefault(d) == \E i \in 1..Len(d.list) : d.list[i] = <<"default/">>
IsStringArray(d) == d.kind \in {"array", "spaced"}
GrantsStorage(d) ==
    \E i \in 1..Len(d.list) :
        /\ d.list[i].pre = <<>>
        /\ d.list[i].base \in {"devstorage", "cloud-platform"}

\* C3: when HasStorageScope returns, it returns true exactly if the listing it
\* read has a line naming the default account, the scopes document it read is
\* a JSON array of strings, and one of the scopes starts with the storage or
\* the cloud-platform prefix; the scopes are read only if the listing names
\* the default account.
C3_HasStorageScope ==
    /\ hs # "done" => ~enabled
    /\ (op = "HasStorageScope" /\ hs = "done") =>
          /\ Len(reads) = 1 /\ reads[1].out.err = NoErr
          /\ IF reads[1].url = serviceAccounts
             THEN ~ListsDefault(listing) /\ ~enabled
             ELSE /\ ListsDefault(listing)
                  /\ reads[1].url = metadataScopes \o <<"?alt=json">>
                  /\ enabled <=> (/\ IsStringArray(reads[1].resp.doc)
                                  /\ GrantsStorage(reads[1].resp.doc))

\* The default account stands on a padded second line, and the only scope
\* that counts is cloud-platform, in an array written with white space.
C3_Witness ==
    /\ op = "HasStorageScope" /\ hs = "done" /\ enabled
    /\ listing = Doc("padded", << <<"my", "default/">>, <<"default/">> >>)
    /\ reads[1].resp.doc.kind = "spaced"
    /\ \A i \in 1..Len(reads[1].resp.doc.list) :
          reads[1].resp.doc.list[i].base # "devstorage"

\* C4: when the token read and the email read succeed and the token body is a
\* JSON object with access_token T, the registry provider returns a
\* credential set whose keys are exactly the four registry patterns, each
\* mapped to {"_token", T, the email as read}.
C4_RegistryToken ==
    (/\ op = "containerRegistryProvider"
     /\ Len(reads) = 2
     /\ reads[1].out.err = NoErr /\ reads[2].out.err = NoErr
     /\ reads[1].resp.doc.kind \in {"blob", "upper"}) =>
        LET entry == DockerConfigEntry(<<"_token">>, reads[1].resp.doc.list[1],
                                       reads[2].resp.body)
            want == { <<"container.cloud.google.com">>, <<"gcr.io">>,
                      <<"*.gcr.io">>, <<"*.pkg.dev">> }
        IN  /\ cfg = Config({<<k, entry>> : k \in want})
            /\ provided = cfg

C4_Witness ==
    /\ op = "containerRegistryProvider"
    /\ Cardinality(provided.entries) = 4
    /\ \A q \in provided.entries :
          q[2] = DockerConfigEntry(<<"_token">>, <<"ya29", ".c">>, <<"e@x", "\n">>)

\* A step of the Provide that ran has failed: a read returned an error, or
\* the document read last is not of the JSON shape wanted.
SomeStepFailed ==
    \/ \E i \in 1..Len(reads) : reads[i].out.err # NoErr
    \/ /\ op = "dockerConfigKeyProvider"
       /\ reads[1].resp.doc.kind \in {"truncated", "array", "nothing"}
    \/ /\ op = "dockerConfigURLKeyProvider"
       /\ Len(reads) = 2
       /\ reads[2].resp.doc.kind \in {"truncated", "array", "nothing"}
    \/ /\ op = "containerRegistryProvider"
       /\ Len(reads) = 2
       /\ reads[1].resp.doc.kind \in {"truncated", "array", "number"}

\* C5: whenever a fetch or parse step of a Provide fails, the credential set
\* returned is present and empty, from the gcpcredentials function as well as
\* from the provider's method.
C5_EmptyOnFailure ==
    (op \in Providers /\ SomeStepFailed) =>
        /\ cfg = EmptyConfig
        /\ provided = EmptyConfig

C7_StatusError ==
    \A i \in 1..Len(reads) :
        LET r == reads[i] IN
        /\ Len(r.out.wire) <= 1
        /\ (ValidURL(r.url) /\ IsHTTP(r.url)) =>
              /\ r.out.wire = <<Request(r.url, r.header)>>
              /\ (r.resp.fault # "dial" /\ r.resp.status # 200) =>
                    /\ r.out.err = Err("HTTPError", r.resp.status, r.url)
                    /\ r.out.isNil
                    /\ r.out.contents = <<>>

\* A 404 whose body is longer than the cap.
C7_Witness ==
    /\ op = "readURL"
    /\ reads[1].resp.status = 404
    /\ Len(reads[1].resp.body) > maxReadLength
    /\ reads[1].out.err = Err("HTTPError", 404, dockerConfigKey)

\* C8: for a 200 response read to its end, readURL fails with the read-limit
\* error exactly when the body is longer than the cap, and returns every body
\* that is not longer than the cap unchanged.
C8_CapExceeded ==
    \A i \in 1..Len(reads) :
        LET r == reads[i] IN
        (/\ ValidURL(r.url) /\ IsHTTP(r.url)
         /\ r.resp.fault = "none" /\ r.resp.status = 200) =>
            /\ r.out.err.kind = "limit" <=> Len(r.resp.body) > maxReadLength
            /\ Len(r.resp.body) <= maxReadLength =>
                  /\ r.out.err = NoErr
                  /\ r.out.contents = r.resp.body

\* C10: every readURL on one of the six metadata endpoints is made with the
\* Metadata-Flavor header and puts it on the wire; the readURL the URL-key
\* provider makes on the URL it was given is made without it.
MetadataEndpoints ==
    {serviceAccounts, metadataScopes \o <<"?alt=json">>, metadataToken,
     metadataEmail, dockerConfigKey, dockerConfigURLKey}
C10_HeaderOnMetadataOnly ==
    (op \in Providers \cup {"HasStorageScope"}) =>
        \A i \in 1..Len(reads) :
            LET r == reads[i] IN
            IF op = "dockerConfigURLKeyProvider" /\ i = 2
            THEN /\ r.url = reads[1].out.contents
                 /\ r.header = nilHeader
                 /\ \A j \in 1..Len(r.out.wire) : r.out.wire[j].header = nilHeader
            ELSE /\ r.url \in MetadataEndpoints
                 /\ r.header = metadataHeader
                 /\ r.out.wire = <<Request(r.url, metadataHeader)>>

\* The URL-key provider has read the document at the URL it was given.
C10_Witness ==
    /\ op = "dockerConfigURLKeyProvider"
    /\ Len(reads) = 2
    /\ reads[2].out.wire = <<Request(reads[1].resp.body, nilHeader)>>
    /\ provided.entries # {}

\* C9: however the Provide calls on a cache-wrapped provider interleave, at
\* most one underlying fetch is under way; a call on an Empty or expired
\* entry issues exactly one fetch, a call made while a fetch is under way
\* issues none and is served with the result of that fetch, and a call on a
\* Valid entry that has not expired issues none and is served with the entry.
Fetching == {c \in Callers : caller[c] = "fetching"}
C9_SingleFlight ==
    /\ [](/\ Cardinality(Fetching) <= 1
          /\ cached.state = "Refreshing" <=> Fetching # {}
          /\ fetches = Len(results) + Cardinality(Fetching)
          /\ \A c \in Callers :
                (caller[c] = "served" /\ ticket[c] # 0) =>
                    got[c] = results[ticket[c]])
    /\ [][\A c \in Callers :
            (caller[c] = "idle" /\ caller'[c] # "idle") =>
                IF cached.state = "Valid" /\ now <= cached.until
                THEN /\ fetches' = fetches
                     /\ caller'[c] = "served"
                     /\ got'[c] = cached.value
                ELSE IF cached.state = "Refreshing"
                THEN /\ fetches' = fetches
                     /\ caller'[c] = "waiting"
                     /\ \E d \in Fetching : ticket'[c] = ticket[d]
                ELSE /\ fetches' = fetches + 1
                     /\ caller'[c] = "fetching"]_vars

\* The entry of the first fetch has expired; the second fetch is under way
\* and another goroutine waits for it.
C9_Witness ==
    /\ fetches = 2 /\ Len(results) = 1
    /\ now > cached.until
    /\ \E c, d \in Callers :
          /\ caller[c] = "fetching" /\ ticket[c] = 2
          /\ caller[d] = "waiting" /\ ticket[d] = 2

\* C11: OnGCEVM returns true exactly if the probe gave no error and the name
\* it yields is "Google" or "Google Compute Engine": the product file with
\* the white space around it trimmed or, on windows, the second of the two
\* CR LF separated lines of the trimmed command output. A failed read or
\* command and an output of another shape give false.
C11_OnGCEVM ==
    who = "OnGCEVM" =>
        onGCE <=>
            /\ ~probe.fault
            /\ probe.doc.base \in { <<"Google">>,
                                    <<"Google", " ", "Compute", " ", "Engine">> }
            /\ goos = "windows" =>
                  (probe.doc.kind \in {"table", "tableCR"} /\ probe.doc.lead = <<>>)

\* On windows, from a table whose lines end in CR CR LF.
C11_Witness ==
    /\ who = "OnGCEVM" /\ onGCE
    /\ goos = "windows"
    /\ probe.doc.kind = "tableCR"
    /\ probe.doc.base = <<"Google", " ", "Compute", " ", "Engine">>

\* C12: Enabled of the registry provider returns OnGCEVM() && HasStorageScope()
\* and calls HasStorageScope only after OnGCEVM returned true: off the
\* platform it returns false with no metadata read made and no backoff
\* entered. Enabled of the two document providers returns what OnGCEVM
\* returned, with no metadata read.
C12_EnabledOrder ==
    /\ (who = "containerRegistryProvider" /\ op # "idle") => onGCE
    /\ (who = "containerRegistryProvider" /\ epc = "returned") =>
          /\ result <=> (onGCE /\ enabled)
          /\ onGCE => (op = "HasStorageScope" /\ hs = "done")
    /\ (who \in {"dockerConfigKeyProvider", "dockerConfigURLKeyProvider"}) =>
          /\ epc = "returned"
          /\ result <=> onGCE
    /\ (who \in Providers /\ ~onGCE) =>
          /\ ~result
          /\ op = "idle" /\ reads = <<>> /\ tries = 0 /\ delay = initialBackoff

\* On the platform without the scope: false after both reads.
C12_Witness ==
    /\ who = "containerRegistryProvider" /\ epc = "returned"
    /\ onGCE /\ ~result
    /\ reads[1].url = metadataScopes \o <<"?alt=json">>

\* C13: whatever SetComponent calls were made, the cloud node controller is
\* reported as <<run, locked>>; the service and the node IPAM controller run
\* exactly if the stored component is cloud-controller-manager and the route
\* controller exactly if it is kube-controller-manager, none of the three
\* under the lock, so service and route controller never both run; and a
\* SetComponent with another name returned an error and left the component
\* as it was, while one with either of the two names stored it.
C13_MigrationConfig ==
    /\ answers # NoAnswers =>
          /\ answers.cloudNode = <<TRUE, TRUE>>
          /\ answers.service = <<asked = "cloud-controller-manager", FALSE>>
          /\ answers.nodeIPAM = <<asked = "cloud-controller-manager", FALSE>>
          /\ answers.route = <<asked = "kube-controller-manager", FALSE>>
          /\ ~(answers.service[1] /\ answers.route[1])
    /\ setErr # "none" =>
          IF setArg \in {"cloud-controller-manager", "kube-controller-manager"}
          THEN component = setArg
          ELSE setErr = "error" /\ component = setPrev

\* The answers for kube-controller-manager, which a call with the name of
\* another component did not unseat.
C13_Witness ==
    /\ asked = "kube-controller-manager" /\ answers.route = <<TRUE, FALSE>>
    /\ setArg = "kube-scheduler" /\ setErr = "error"
    /\ component = "kube-controller-manager"

\* C14: a create stores the object with generation 1; an update stores the
\* new object with the old generation plus one if it differs from the old
\* object in any field, and as it was sent otherwise; so the stored
\* generation is at least 1 and each update leaves it as it is or adds one.
C14_Generation ==
    /\ [](last = "create" =>
            /\ stored.Generation = 1
            /\ stored.Labels = submitted.Labels
            /\ stored.AllowedDomains = submitted.AllowedDomains)
    /\ [](last = "update" =>
            /\ stored.Labels = submitted.Labels
            /\ stored.AllowedDomains = submitted.AllowedDomains
            /\ stored.Generation =
                  IF submitted = before THEN submitted.Generation
                  ELSE before.Generation + 1)
    /\ [](stored # NoObject => stored.Generation >= 1)
    /\ [][stored # NoObject =>
            stored'.Generation \in {stored.Generation, stored.Generation + 1}]_vars

\* The third update differs from the stored object only in its labels and
\* was sent with generation 0; one update before it changed nothing.
C14_Witness ==
    /\ last = "update" /\ updates = 3
    /\ submitted.Generation = 0
    /\ submitted.AllowedDomains = before.AllowedDomains
    /\ submitted.Labels # before.Labels
    /\ stored.Generation = 3

====
